---- MODULE Spec2Model ----
(***************************************************************************)
(* Model of src/index.ts: the streaming tool-call loop of handleRequest    *)
(* (the runTools runner, the ReadableStream that proxies its events) and   *)
(* the PlanetScale client PscaleClient.                                    *)
(*                                                                         *)
(* One step of the model is one task of the event loop: everything the     *)
(* code does between two awaited I/O operations (the completion-API        *)
(* stream, the upstream HTTP response, its body) happens in one action.    *)
(* The runner (openai runTools), EventEmitter and ReadableStream are       *)
(* libraries; they are modelled by their documented behaviour:             *)
(*   - emit() calls the listener synchronously, an exception of the        *)
(*     listener propagates to the emitter's caller;                        *)
(*   - controller.enqueue / controller.close throw a TypeError unless the  *)
(*     stream is readable, and then change nothing;                        *)
(*   - the runner executes tool calls one after the other, awaits each     *)
(*     tool function, and on a rejection or an abort emits 'end';          *)
(*   - runner.abort() aborts the completion-API request in flight: no      *)
(*     further chunk of it is dispatched, and no request is sent on an     *)
(*     aborted signal. The upstream HTTP call of PscaleClient.fetch takes  *)
(*     no signal and completes regardless.                                 *)
(* events, results and the turn tags are history: they record what fired   *)
(* and how each tool call settled, for the properties to refer to.         *)
(***************************************************************************)
EXTENDS Integers, Sequences, FiniteSets, TLC

(* ---------------------------- bounds ---------------------------------- *)

\* requests the server handles (handleRequest is called once per request)
NumRuns == 2
\* chunks the completion API streams during one run
MaxChunks == 3
\* tool calls the model requests during one run
MaxCalls == 2
\* database records in one upstream response body
MaxRecs == 2

Runs == 1 .. NumRuns

(* ----------------------- JSON values and bodies ----------------------- *)

Str(v) == [t |-> "string", v |-> v]
Num(v) == [t |-> "number", v |-> v]

\* database records as the upstream API may return them
RecPlain == [id |-> Str("db1"), name |-> Str("alpha")]
RecExtra == [id |-> Str("db2"), name |-> Str("beta"), region |-> Str("us-east")]
RecBadId == [id |-> Num("3"), name |-> Str("gamma")]

Recs == {RecPlain, RecExtra, RecBadId}

RECURSIVE SeqsUpTo(_, _)
SeqsUpTo(S, n) ==
    IF n = 0 THEN {<<>>}
    ELSE LET shorter == SeqsUpTo(S, n - 1)
         IN  shorter \cup {Append(q, x) : q \in {p \in shorter : Len(p) = n - 1}, x \in S}

\* a parsed JSON document: {"data": [...]}, {"data": {...}} or something else
JsonList(items) == [kind |-> "array", items |-> items, code |-> ""]
JsonOne(rec) == [kind |-> "object", items |-> <<rec>>, code |-> ""]
JsonOther(code) == [kind |-> "none", items |-> <<>>, code |-> code]

\* a response body as text: well-formed JSON text, or text that is not JSON
Text(json) == [wellFormed |-> TRUE, json |-> json]
NotJsonText == [wellFormed |-> FALSE, json |-> JsonOther("")]

\* the bodies a 2xx response to a tool's call may carry: the documents of the
\* shape the tool expects, a document of another shape, and text that is not JSON
OkBodies(name) ==
    (CASE name = "listDatabases" -> {Text(JsonList(q)) : q \in SeqsUpTo(Recs, MaxRecs)}
       [] name = "getDatabase" -> {Text(JsonOne(x)) : x \in Recs}
       [] OTHER -> {})
        \cup {Text(JsonOther("empty")), NotJsonText}

\* the bodies a non-2xx response may carry
ErrorBodies == {Text(JsonOther("not_found")), NotJsonText}

\* resp.json(): the parsed document, or a SyntaxError
JsonParses(text) == text.wellFormed
JsonValue(text) == text.json

(* PSDb = z.object({id: z.string(), name: z.string()}) *)
PSDbMatches(rec) ==
    /\ "id" \in DOMAIN rec /\ rec["id"].t = "string"
    /\ "name" \in DOMAIN rec /\ rec["name"].t = "string"

\* zod objects strip unknown keys on parse
PSDbParse(rec) == [k \in {"id", "name"} |-> rec[k]]

\* z.object({ data: z.array(PSDb) }) of listDatabases
DbListMatches(json) ==
    /\ json.kind = "array"
    /\ \A i \in 1 .. Len(json.items) : PSDbMatches(json.items[i])

\* z.object({ data: PSDb }) of getDatabase
DbOneMatches(json) ==
    /\ json.kind = "object"
    /\ PSDbMatches(json.items[1])

ParsedDbs(json) == [i \in 1 .. Len(json.items) |-> PSDbParse(json.items[i])]

DisplayIcon == "https://avatars.githubusercontent.com/u/35612527?s=64&v=4"

\* a reference that takes its id from the wrong field
DatabaseReferenceIdFromName(db) ==
    [type |-> "planetscale.database",
     id |-> db.name,
     data |-> db,
     metadata |-> [display_name |-> db.name, display_icon |-> DisplayIcon]]

\* dbs.map(...) of #emitDatabasesReference
DatabaseReference(db) ==
    [type |-> "planetscale.database",
     id |-> db.id,
     data |-> db,
     metadata |-> [display_name |-> db.name, display_icon |-> DisplayIcon]]

DatabasesReference(dbs) == [i \in 1 .. Len(dbs) |-> DatabaseReference(dbs[i])]

(* ------------------------ PscaleClient.fetch -------------------------- *)

\* `${pscaleTokenID}:${pscaleToken}`
pscaleAuth == "tokenID:token"

\* object spread {...a, ...b}: the keys of both, b's value where both have one
Spread(a, b) ==
    [k \in DOMAIN a \cup DOMAIN b |-> IF k \in DOMAIN b THEN b[k] ELSE a[k]]

EmptyObject == [k \in {} |-> ""]

\* an undefined init spreads like the empty object; init?.x is then undefined
InitHeaders(init) == IF "headers" \in DOMAIN init THEN init["headers"] ELSE EmptyObject

\* init?.method ?? "GET"
FetchMethod(init) == IF "method" \in DOMAIN init THEN init["method"] ELSE "GET"

\* the second argument of the fetch call of PscaleClient.fetch
FetchOptions(init) ==
    Spread(Spread([headers |-> Spread([Authorization |-> pscaleAuth], InitHeaders(init))],
                  init),
           [method |-> FetchMethod(init)])

\* the HTTP request PscaleClient.fetch issues for a path and an init
FetchRequest(path, init) == [path |-> path, options |-> FetchOptions(init)]

\* resp.ok
StatusOk(status) == status >= 200 /\ status <= 299

Statuses == {200, 404}

StatusText(status) == IF status = 200 THEN "OK" ELSE "Not Found"

\* the value fetch returns for a non-2xx response
Failure(status, body) ==
    [ok |-> FALSE, status |-> status, statusText |-> StatusText(status),
     body |-> body, data |-> JsonOther("")]

\* the value fetch returns for a 2xx response
Success(data) ==
    [ok |-> TRUE, status |-> 0, statusText |-> "", body |-> JsonOther(""), data |-> data]

(* ------------------------- update narration --------------------------- *)

NoText == [kind |-> "none", method |-> "", path |-> <<>>, status |-> 0]
\* a piece of the model's answer
ModelText == [kind |-> "model", method |-> "", path |-> <<>>, status |-> 0]
\* `${method} ${path}...
RequestText(method, path) == [kind |-> "request", method |-> method, path |-> path, status |-> 0]
\* Error ${resp.status}`
ErrorText(status) == [kind |-> "error", method |-> "", path |-> <<>>, status |-> status]
\* OK`
OkText == [kind |-> "ok", method |-> "", path |-> <<>>, status |-> 0]

(* ------------------------------ tools --------------------------------- *)

ArgsGood == "{\"name\":\"alpha\"}"
ArgsBad == "{\"name\":"
ArgsNone == "{}"

\* JSON.parse of a tool call's argument text succeeds
ArgsParse(args) == args \in {ArgsGood, ArgsNone}

\* args.name of the parsed arguments
ArgsName(args) == IF args = ArgsGood THEN "alpha" ELSE "undefined"

\* tools all declared without a parse function
HasParseOmitted(name) == FALSE

\* tools declared with parse: JSON.parse (listDatabases has none)
HasParse(name) == name # "listDatabases"

\* the tool calls the model may request: name and argument text
ToolCalls ==
    {[name |-> "listDatabases", args |-> ArgsNone],
     [name |-> "getDatabase", args |-> ArgsGood],
     [name |-> "getDatabase", args |-> ArgsBad],
     [name |-> "listBranches", args |-> ArgsGood]}

\* the path each tool function passes to the client
ToolPath(tc) ==
    CASE tc.name = "listDatabases" -> <<"databases">>
      [] tc.name = "getDatabase" -> <<"databases", ArgsName(tc.args)>>
      [] OTHER -> <<"databases", ArgsName(tc.args), "branches">>

(* ------------------------- chunks and frames -------------------------- *)

NoDelta == [content |-> NoText, tool |-> "", args |-> ""]
Choice(delta, finish) == [delta |-> delta, finish_reason |-> finish]

\* chunk ids: the completion's id (one per model turn), or "chunk"
UpdateChunkId == 0

\* the chunks the completion API may stream in turn id, n-th chunk of the run
ModelChunks(id, n) ==
    {[id |-> id, n |-> n, choices |-> c] : c \in
        {<<Choice([NoDelta EXCEPT !.content = ModelText], "null")>>,
         <<Choice(NoDelta, "tool_calls")>>,
         <<Choice(NoDelta, "stop")>>,
         <<>>,
         <<Choice([NoDelta EXCEPT !.content = ModelText], "null"),
           Choice(NoDelta, "tool_calls")>>}
        \cup {<<Choice([NoDelta EXCEPT !.tool = tc.name, !.args = tc.args], "null")>> :
                tc \in ToolCalls}
        \cup {<<Choice([NoDelta EXCEPT !.tool = "listDatabases", !.args = ArgsBad],
                       "tool_calls")>>}}

\* chunk.choices.at(0)?.finish_reason === "tool_calls"
IsToolCallsChunk(chunk) ==
    /\ Len(chunk.choices) > 0
    /\ chunk.choices[1].finish_reason = "tool_calls"

\* the chunk the 'update' listener synthesizes
UpdateChunk(update) ==
    [id |-> UpdateChunkId, n |-> 0,
     choices |-> <<Choice([NoDelta EXCEPT !.content = update], "null")>>]

NoChunk == [id |-> UpdateChunkId, n |-> 0, choices |-> <<>>]

\* data: ${JSON.stringify(chunk)}\n\n
DataFrame(chunk) == [event |-> "message", chunk |-> chunk, refs |-> <<>>]
\* event: copilot_references\ndata: ${JSON.stringify(reference)}\n\n
ReferenceFrame(reference) ==
    [event |-> "copilot_references", chunk |-> NoChunk, refs |-> reference]

(* ------------------------------ state --------------------------------- *)

VARIABLES
    pc,         \* where each run is: "idle", "start", "awaiting" (a model turn is
                \* streaming), "tool" (an upstream HTTP call is in flight),
                \* "body" (its body is being read), "ended" ('end' was emitted)
    aborted,    \* the runner's abort signal (runner.abort() was called)
    stream,     \* the ReadableStream: "readable", "closed", "cancelled"
    out,        \* the frames enqueued on the stream, in order
    invalid,    \* controller methods called while the stream was not readable
    events,     \* the 'chunk', 'update' and 'reference' events fired, in order
    turn,       \* completion-API round trips issued by the runner
    pending,    \* the tool calls of the current turn's message, in order
    cur,        \* index in pending of the tool call being executed
    resp,       \* status of the upstream response whose body is being read
    http,       \* the upstream HTTP requests issued, in order
    results,    \* how each tool function settled, in order
    messages,   \* the tool messages the runner appended to the conversation
    nchunks,    \* chunks streamed so far
    ncalls,     \* tool calls requested so far
    runError,   \* "" or the error the run ended with
    attached,   \* the events of the runner and the client that have a listener
    callInit,   \* the init of a direct PscaleClient.fetch call
    callRequest \* the request that call issued

runVars == <<pc, aborted, stream, out, invalid, events, turn, pending, cur, resp,
             http, results, messages, nchunks, ncalls, runError, attached>>
vars == <<pc, aborted, stream, out, invalid, events, turn, pending, cur, resp,
          http, results, messages, nchunks, ncalls, runError, attached, callInit,
          callRequest>>

\* no body has been read
NoBody == [wellFormed |-> FALSE, json |-> JsonOther("none")]

\* the state of run r as one record; thrown is the exception in flight, if any,
\* body the response body the step has read
State(r) ==
    [pc |-> pc[r], aborted |-> aborted[r], stream |-> stream[r], out |-> out[r],
     invalid |-> invalid[r], events |-> events[r], turn |-> turn[r],
     pending |-> pending[r], cur |-> cur[r], resp |-> resp[r], http |-> http[r],
     results |-> results[r], messages |-> messages[r], nchunks |-> nchunks[r],
     ncalls |-> ncalls[r], runError |-> runError[r], attached |-> attached[r],
     thrown |-> "", body |-> NoBody]

\* one emitter for the clients of all requests (a module-level emitter)
EmitterShared(r) == 0

\* the emitter run r's client emits on and run r's listeners are attached to:
\* handleRequest makes a client per request, and #emitter is an instance field
Emitter(r) == r

\* the frames the 'update' and 'reference' listeners of run q write for the
\* client events run r fires in a step that takes it to s
Heard(q, r, s) ==
    LET fired == SubSeq(s.events, Len(events[r]) + 1, Len(s.events))
        Hears(e) == e.type \in {"update", "reference"} \cap attached[q]
        heard == SelectSeq(fired, Hears)
    IN  IF Emitter(q) = Emitter(r) /\ stream[q] = "readable"
        THEN [i \in 1 .. Len(heard) |->
                 IF heard[i].type = "update"
                 THEN DataFrame(UpdateChunk(heard[i].update))
                 ELSE ReferenceFrame(heard[i].refs)]
        ELSE <<>>

Commit(r, s) ==
    /\ pc' = [pc EXCEPT ![r] = s.pc]
    /\ aborted' = [aborted EXCEPT ![r] = s.aborted]
    /\ stream' = [stream EXCEPT ![r] = s.stream]
    /\ out' = [q \in Runs |-> IF q = r THEN s.out ELSE out[q] \o Heard(q, r, s)]
    /\ invalid' = [invalid EXCEPT ![r] = s.invalid]
    /\ events' = [events EXCEPT ![r] = s.events]
    /\ turn' = [turn EXCEPT ![r] = s.turn]
    /\ pending' = [pending EXCEPT ![r] = s.pending]
    /\ cur' = [cur EXCEPT ![r] = s.cur]
    /\ resp' = [resp EXCEPT ![r] = s.resp]
    /\ http' = [http EXCEPT ![r] = s.http]
    /\ results' = [results EXCEPT ![r] = s.results]
    /\ messages' = [messages EXCEPT ![r] = s.messages]
    /\ nchunks' = [nchunks EXCEPT ![r] = s.nchunks]
    /\ ncalls' = [ncalls EXCEPT ![r] = s.ncalls]
    /\ runError' = [runError EXCEPT ![r] = s.runError]
    /\ attached' = [attached EXCEPT ![r] = s.attached]

(* --------------------- the stream and its listeners -------------------- *)

\* an enqueue that does not look at the state of the stream
EnqueueUnchecked(s, frame) == [s EXCEPT !.out = Append(@, frame)]

\* controller.enqueue(data)
Enqueue(s, frame) ==
    IF s.stream = "readable"
    THEN [s EXCEPT !.out = Append(@, frame)]
    ELSE [s EXCEPT !.invalid = @ \cup {"enqueue"}, !.thrown = "TypeError"]

\* controller.close()
Close(s) ==
    IF s.stream = "readable"
    THEN [s EXCEPT !.stream = "closed"]
    ELSE [s EXCEPT !.invalid = @ \cup {"close"}, !.thrown = "TypeError"]

\* the record of a fired event
Event(type, chunk, update, refs, s) ==
    [type |-> type, chunk |-> chunk, update |-> update, refs |-> refs,
     turn |-> s.turn, open |-> s.stream = "readable"]

Fired(s, ev) == [s EXCEPT !.events = Append(@, ev)]

\* the chunk listener without its filter
OnChunkUnfiltered(s, chunk) == Enqueue(s, DataFrame(chunk))

\* runner.on("chunk", ...)
OnChunk(s, chunk) ==
    IF IsToolCallsChunk(chunk) THEN s ELSE Enqueue(s, DataFrame(chunk))

\* an update listener that coalesces an update into the update frame before it
OnUpdateCoalescing(s, update) ==
    IF s.stream = "readable" /\ s.out # <<>> /\ s.out[Len(s.out)].event = "message"
           /\ s.out[Len(s.out)].chunk.id = UpdateChunkId
    THEN [s EXCEPT !.out[Len(s.out)] = DataFrame(UpdateChunk(update))]
    ELSE Enqueue(s, DataFrame(UpdateChunk(update)))

\* ps.on("update", ...)
OnUpdate(s, update) == Enqueue(s, DataFrame(UpdateChunk(update)))

\* ps.on("reference", ...)
OnReference(s, reference) == Enqueue(s, ReferenceFrame(reference))

\* an end listener that writes a closing frame before it closes the stream
OnEndWithLastFrame(s) ==
    IF s.stream = "readable" THEN Close(Enqueue(s, DataFrame(NoChunk))) ELSE Close(s)

\* runner.on("end", ...)
OnEnd(s) == Close(s)

\* the emits; an exception of the listener propagates out of emit
\* (an event without a listener is dropped)
EmitChunk(s, chunk) ==
    LET f == Fired(s, Event("chunk", chunk, NoText, <<>>, s))
    IN  IF "chunk" \in s.attached THEN OnChunk(f, chunk) ELSE f
EmitUpdate(s, update) ==
    LET f == Fired(s, Event("update", NoChunk, update, <<>>, s))
    IN  IF "update" \in s.attached THEN OnUpdate(f, update) ELSE f
EmitReference(s, reference) ==
    LET f == Fired(s, Event("reference", NoChunk, NoText, reference, s))
    IN  IF "reference" \in s.attached THEN OnReference(f, reference) ELSE f
EmitEnd(s) == IF "end" \in s.attached THEN OnEnd(s) ELSE s

\* #emitDatabasesReference(dbs)
EmitDatabasesReference(s, dbs) == EmitReference(s, DatabasesReference(dbs))

(* ------------------------------ runner --------------------------------- *)

\* a runner that emits 'end' only when the run ends without an error
RunnerEndOnSuccessOnly(s, error) ==
    [(IF error = "" THEN EmitEnd(s) ELSE s)
        EXCEPT !.pc = "ended", !.runError = error, !.thrown = ""]

\* the runner emits 'end' (after 'error' or 'abort' when error is not "")
RunnerEnd(s, error) ==
    [EmitEnd(s) EXCEPT !.pc = "ended", !.runError = error, !.thrown = ""]

\* the runner issues the next completion-API request; with the signal aborted
\* the request is not sent and the run ends with APIUserAbortError
BeginTurn(s) ==
    IF s.aborted
    THEN RunnerEnd(s, "APIUserAbortError")
    ELSE [s EXCEPT !.turn = @ + 1, !.pc = "awaiting", !.pending = <<>>, !.cur = 1]

NoResult ==
    [ok |-> FALSE, status |-> 0, statusText |-> "", body |-> JsonOther(""),
     data |-> JsonOther("")]

\* how a tool function settled: the response it had received (status 0 and no
\* body when none), and the value it resolved to or the error it rejected with
Settled(tc, how, s, value) ==
    [name |-> tc.name, settled |-> how, status |-> s.resp, body |-> s.body,
     cancelled |-> s.aborted, value |-> value, error |-> s.thrown]

\* the tool function's promise rejects: the run fails and 'end' is emitted
ToolRejected(s) ==
    RunnerEnd([s EXCEPT !.results =
                   Append(@, Settled(s.pending[s.cur], "rejected", s, NoResult))],
              s.thrown)

(* PscaleClient.fetch up to the await of the HTTP call *)
FetchStart(s, path, init) ==
    LET u == EmitUpdate(s, RequestText(FetchMethod(init), path))
    IN  IF u.thrown # "" THEN u
        ELSE [u EXCEPT !.http = Append(@, [turn |-> s.turn,
                                           request |-> FetchRequest(path, init)]),
                       !.pc = "tool"]

\* every tool function calls the client without an init
InvokeTool(s, tc) == FetchStart(s, ToolPath(tc), EmptyObject)

\* the tool message for arguments JSON.parse rejects
ParseErrorMessage(tc) == [name |-> tc.name, kind |-> "parse_error", content |-> NoResult]

\* the tool message for a result: content is JSON.stringify(result)
ResultMessage(tc, result) == [name |-> tc.name, kind |-> "result", content |-> result]

\* the runner's loop over message.tool_calls from index cur on, then the next turn
RECURSIVE RunTools(_)
RunTools(s) ==
    IF s.cur > Len(s.pending) THEN BeginTurn(s)
    ELSE LET tc == s.pending[s.cur]
         IN  IF HasParse(tc.name) /\ ~ArgsParse(tc.args)
             THEN RunTools([s EXCEPT !.messages = Append(@, ParseErrorMessage(tc)),
                                     !.cur = @ + 1])
             ELSE LET f == InvokeTool(s, tc)
                  IN  IF f.thrown # "" THEN ToolRejected(f) ELSE f

\* a runner that puts a tool result in front of the earlier ones
ToolResolvedPrepending(s, result) ==
    LET tc == s.pending[s.cur]
    IN  RunTools([s EXCEPT !.results = Append(@, Settled(tc, "resolved", s, result)),
                           !.messages = <<ResultMessage(tc, result)>> \o @,
                           !.cur = @ + 1, !.resp = 0])

\* the tool function's promise resolves: the result is appended, the loop goes on
ToolResolved(s, result) ==
    LET tc == s.pending[s.cur]
    IN  RunTools([s EXCEPT !.results = Append(@, Settled(tc, "resolved", s, result)),
                           !.messages = Append(@, ResultMessage(tc, result)),
                           !.cur = @ + 1, !.resp = 0])

\* a fetch that narrates an error status but not the "OK"
FetchRespondedWithoutOk(s, status) ==
    IF StatusOk(status) THEN [s EXCEPT !.resp = status, !.pc = "body"]
    ELSE LET u == EmitUpdate([s EXCEPT !.resp = status], ErrorText(status))
         IN  IF u.thrown # "" THEN u ELSE [u EXCEPT !.pc = "body"]

\* a fetch whose error branch falls through to the "OK" update
FetchRespondedFallsThrough(s, status) ==
    LET e == IF StatusOk(status) THEN [s EXCEPT !.resp = status]
             ELSE EmitUpdate([s EXCEPT !.resp = status], ErrorText(status))
        u == IF e.thrown # "" THEN e ELSE EmitUpdate(e, OkText)
    IN  IF u.thrown # "" THEN u ELSE [u EXCEPT !.pc = "body"]

(* PscaleClient.fetch from the HTTP response to the await of resp.json() *)
FetchResponded(s, status) ==
    LET u == EmitUpdate([s EXCEPT !.resp = status],
                        IF StatusOk(status) THEN OkText ELSE ErrorText(status))
    IN  IF u.thrown # "" THEN u ELSE [u EXCEPT !.pc = "body"]

\* the value PscaleClient.fetch resolves to once the body is parsed
FetchResult(status, json) ==
    IF StatusOk(status) THEN Success(json) ELSE Failure(status, json)

\* a listDatabases that returns without emitting the reference
ListDatabasesReturnNoReference(s, result) ==
    IF ~result.ok THEN s
    ELSE IF ~DbListMatches(result.data) THEN [s EXCEPT !.thrown = "ZodError"]
    ELSE s

(* PscaleClient.listDatabases after the await of fetch *)
ListDatabasesReturn(s, result) ==
    IF ~result.ok THEN s
    ELSE IF ~DbListMatches(result.data) THEN [s EXCEPT !.thrown = "ZodError"]
    ELSE EmitDatabasesReference(s, ParsedDbs(result.data))

(* PscaleClient.getDatabase after the await of fetch *)
GetDatabaseReturn(s, result) ==
    IF ~result.ok THEN s
    ELSE IF ~DbOneMatches(result.data) THEN [s EXCEPT !.thrown = "ZodError"]
    ELSE EmitDatabasesReference(s, ParsedDbs(result.data))

\* the rest of the tool function once fetch has resolved to result
ToolReturn(s, name, result) ==
    CASE name = "listDatabases" -> ListDatabasesReturn(s, result)
      [] name = "getDatabase" -> GetDatabaseReturn(s, result)
      [] OTHER -> s

\* resp.json() settles: fetch returns or rejects, and the runner goes on
BodyArrived(s, text) ==
    LET b == [s EXCEPT !.body = text]
    IN  IF ~JsonParses(text) THEN ToolRejected([b EXCEPT !.thrown = "SyntaxError"])
        ELSE LET result == FetchResult(s.resp, JsonValue(text))
                 c == ToolReturn(b, s.pending[s.cur].name, result)
             IN  IF c.thrown # "" THEN ToolRejected(c) ELSE ToolResolved(c, result)

\* the runner accumulates a streamed chunk into the turn's message
Accumulate(s, chunk) ==
    IF Len(chunk.choices) > 0 /\ chunk.choices[1].delta.tool # ""
    THEN [s EXCEPT !.pending = Append(@, [name |-> chunk.choices[1].delta.tool,
                                          args |-> chunk.choices[1].delta.args]),
                   !.ncalls = @ + 1, !.nchunks = @ + 1]
    ELSE [s EXCEPT !.nchunks = @ + 1]

RequestsTool(chunk) == Len(chunk.choices) > 0 /\ chunk.choices[1].delta.tool # ""

(* --------------------------- handleRequest ----------------------------- *)

\* the events handleRequest listens to: runner 'end' and 'chunk', client
\* 'update' and 'reference'
Listeners == {"end", "chunk", "update", "reference"}

\* a handleRequest whose start() attaches the listeners only in a later task
HandleRequestedDeferred(s) == [s EXCEPT !.pc = "start"]

\* handleRequest has returned: the client and the runner exist, the runner's
\* executor is scheduled, and start() has attached the four listeners
HandleRequested(s) == [s EXCEPT !.pc = "start", !.attached = Listeners]

(* ------------------------------ actions -------------------------------- *)

\* the server's fetch handler calls handleRequest for a request
HandleRequest(r) ==
    /\ pc[r] = "idle"
    /\ Commit(r, HandleRequested(State(r)))
    /\ UNCHANGED <<callInit, callRequest>>

\* the runner's executor starts (runTools schedules it after handleRequest returns)
RunnerStart(r) ==
    /\ pc[r] = "start"
    /\ Commit(r, BeginTurn(State(r)))
    /\ UNCHANGED <<callInit, callRequest>>

\* the completion API streams one chunk: the runner emits 'chunk'
ModelChunk(r) ==
    /\ pc[r] = "awaiting" /\ ~aborted[r]
    /\ nchunks[r] < MaxChunks
    /\ \E chunk \in ModelChunks(turn[r], nchunks[r] + 1) :
          /\ RequestsTool(chunk) => ncalls[r] < MaxCalls
          /\ LET c == EmitChunk(Accumulate(State(r), chunk), chunk)
             IN  Commit(r, IF c.thrown # "" THEN RunnerEnd(c, c.thrown) ELSE c)
    /\ UNCHANGED <<callInit, callRequest>>

\* the completion stream ends: the run ends, or the requested tools are run
ModelDone(r) ==
    /\ pc[r] = "awaiting" /\ ~aborted[r]
    /\ Commit(r, IF pending[r] = <<>> THEN RunnerEnd(State(r), "") ELSE RunTools(State(r)))
    /\ UNCHANGED <<callInit, callRequest>>

\* the completion-API request fails
ModelFails(r) ==
    /\ pc[r] = "awaiting" /\ ~aborted[r]
    /\ Commit(r, RunnerEnd(State(r), "APIError"))
    /\ UNCHANGED <<callInit, callRequest>>

\* the aborted completion-API request rejects
ModelAborted(r) ==
    /\ pc[r] = "awaiting" /\ aborted[r]
    /\ Commit(r, RunnerEnd(State(r), "APIUserAbortError"))
    /\ UNCHANGED <<callInit, callRequest>>

\* the upstream API answers the HTTP call in flight
UpstreamResponds(r) ==
    /\ pc[r] = "tool"
    /\ \E status \in Statuses :
          LET f == FetchResponded(State(r), status)
          IN  Commit(r, IF f.thrown # "" THEN ToolRejected(f) ELSE f)
    /\ UNCHANGED <<callInit, callRequest>>

\* a fetch that catches the transport failure, narrates it and returns a Failure
UpstreamFailsSwallowed(r) ==
    /\ pc[r] = "tool"
    /\ LET u == EmitUpdate(State(r), ErrorText(0))
       IN  Commit(r, IF u.thrown # "" THEN ToolRejected(u)
                     ELSE ToolResolved(u, Failure(0, JsonOther(""))))
    /\ UNCHANGED <<callInit, callRequest>>

\* the HTTP call in flight fails at the transport level
UpstreamFails(r) ==
    /\ pc[r] = "tool"
    /\ Commit(r, ToolRejected([State(r) EXCEPT !.thrown = "FetchError"]))
    /\ UNCHANGED <<callInit, callRequest>>

\* the body of the upstream response has been read
BodyArrives(r) ==
    /\ pc[r] = "body"
    /\ \E text \in (IF StatusOk(resp[r]) THEN OkBodies(pending[r][cur[r]].name)
                     ELSE ErrorBodies) :
          Commit(r, BodyArrived(State(r), text))
    /\ UNCHANGED <<callInit, callRequest>>

\* a cancel() that does not abort the runner
CancelWithoutAbort(r) ==
    /\ pc[r] # "idle"
    /\ stream[r] = "readable"
    /\ Commit(r, [State(r) EXCEPT !.stream = "cancelled"])
    /\ UNCHANGED <<callInit, callRequest>>

\* the stream is cancelled: by the client's disconnect (the request signal's
\* listener calls responseStream.cancel()) or by the stream's consumer; the
\* stream stops being readable and its cancel() calls runner.abort()
Cancel(r) ==
    /\ pc[r] # "idle"
    /\ stream[r] = "readable"
    /\ Commit(r, [State(r) EXCEPT !.stream = "cancelled", !.aborted = TRUE])
    /\ UNCHANGED <<callInit, callRequest>>

NoRequest == [path |-> <<>>, options |-> EmptyObject]

\* PscaleClient.fetch called with an init: the request it issues
DirectFetch ==
    /\ callRequest = NoRequest
    /\ callRequest' = FetchRequest(<<"databases">>, callInit)
    /\ UNCHANGED <<runVars, callInit>>

(* --------------------------- specifications ---------------------------- *)

InitRuns(started) ==
    /\ pc = [r \in Runs |-> IF r \in started THEN "start" ELSE "idle"]
    /\ aborted = [r \in Runs |-> FALSE]
    /\ stream = [r \in Runs |-> "readable"]
    /\ out = [r \in Runs |-> <<>>]
    /\ invalid = [r \in Runs |-> {}]
    /\ events = [r \in Runs |-> <<>>]
    /\ turn = [r \in Runs |-> 0]
    /\ pending = [r \in Runs |-> <<>>]
    /\ cur = [r \in Runs |-> 1]
    /\ resp = [r \in Runs |-> 0]
    /\ http = [r \in Runs |-> <<>>]
    /\ results = [r \in Runs |-> <<>>]
    /\ messages = [r \in Runs |-> <<>>]
    /\ nchunks = [r \in Runs |-> 0]
    /\ ncalls = [r \in Runs |-> 0]
    /\ runError = [r \in Runs |-> ""]
    /\ attached = [r \in Runs |-> IF r \in started THEN Listeners ELSE {}]

\* one request: handleRequest has returned the stream, the listeners are attached
Init ==
    /\ InitRuns({1})
    /\ callInit = EmptyObject
    /\ callRequest = NoRequest

RunStep(r) ==
    \/ RunnerStart(r)
    \/ ModelChunk(r)
    \/ ModelDone(r)
    \/ ModelFails(r)
    \/ ModelAborted(r)
    \/ UpstreamResponds(r)
    \/ UpstreamFails(r)
    \/ BodyArrives(r)
    \/ Cancel(r)

Next == \E r \in Runs : RunStep(r)

Spec == Init /\ [][Next]_vars

\* the steps of run r that do not depend on the client: the runner's own
\* steps and the settling of the model round trip or HTTP call it awaits
RunProgress(r) ==
    \/ RunnerStart(r)
    \/ ModelChunk(r)
    \/ ModelDone(r)
    \/ ModelFails(r)
    \/ ModelAborted(r)
    \/ UpstreamResponds(r)
    \/ UpstreamFails(r)
    \/ BodyArrives(r)

\* a step of the run itself, with a completion stream of at most one chunk
LiveStep(r) == RunProgress(r) /\ nchunks'[r] <= 1

NextLive == \E r \in Runs : LiveStep(r) \/ Cancel(r)

\* one request whose awaited model round trips and HTTP calls all settle: the
\* runner's tasks are run by the event loop, and every awaited call resolves
\* or rejects; a cancel may come at any time or never
SpecLive == Init /\ [][NextLive]_vars /\ \A r \in Runs : WF_vars(LiveStep(r))

\* the requests the server handles concurrently
Served == {1, 2}

InitServer ==
    /\ InitRuns({})
    /\ callInit = EmptyObject
    /\ callRequest = NoRequest

\* concurrent requests, each with a completion stream of at most one chunk
NextServer ==
    \E r \in Served :
        /\ HandleRequest(r) \/ RunStep(r)
        /\ nchunks'[r] <= 1

SpecServer == InitServer /\ [][NextServer]_vars

HeaderNames == {"Authorization", "Accept", "X-Trace"}
HeaderValues == {"v1", "v2"}
HeaderObjects == UNION {[S -> HeaderValues] : S \in SUBSET HeaderNames}
Methods == {"GET", "POST", "DELETE"}

\* the init objects a caller may pass to PscaleClient.fetch
Inits ==
    {EmptyObject}
        \cup {[headers |-> h] : h \in HeaderObjects}
        \cup {[method |-> m] : m \in Methods}
        \cup {[headers |-> h, method |-> m] : h \in HeaderObjects, m \in Methods}

InitFetch ==
    /\ InitRuns({})
    /\ callInit \in Inits
    /\ callRequest = NoRequest

NextFetch == DirectFetch

SpecFetch == InitFetch /\ [][NextFetch]_vars

(* ------------------------------ claims --------------------------------- *)

\* the first choice of a chunk reports finish_reason "tool_calls"
FirstFinishIsToolCalls(chunk) ==
    chunk.choices # <<>> /\ chunk.choices[1].finish_reason = "tool_calls"

IsModelFrame(f) == f.event = "message" /\ f.chunk.id # UpdateChunkId
IsUpdateFrame(f) == f.event = "message" /\ f.chunk.id = UpdateChunkId
IsReferenceFrame(f) == f.event = "copilot_references"
IsChunkEvent(e) == e.type = "chunk"
IsForwardedChunkEvent(e) == e.type = "chunk" /\ ~FirstFinishIsToolCalls(e.chunk)

\* the frame a source event is to produce
FrameOfEvent(e) ==
    CASE e.type = "chunk" -> [event |-> "message", chunk |-> e.chunk, refs |-> <<>>]
      [] e.type = "update" ->
            [event |-> "message",
             chunk |-> [id |-> UpdateChunkId, n |-> 0,
                        choices |-> <<[delta |-> [content |-> e.update, tool |-> "", args |-> ""],
                                       finish_reason |-> "null"]>>],
             refs |-> <<>>]
      [] OTHER -> [event |-> "copilot_references", chunk |-> NoChunk, refs |-> e.refs]

FramesOfEvents(es) == [i \in 1 .. Len(es) |-> FrameOfEvent(es[i])]

\* C1: no chunk whose first choice has finish_reason "tool_calls" is on the
\* outbound stream, however many of them the run emitted, and the chunk frames
\* on the stream are exactly the other chunks, one data frame each, in order.
C1_ToolCallsChunksSuppressed ==
    \A r \in Runs :
        /\ \A i \in 1 .. Len(out[r]) : ~FirstFinishIsToolCalls(out[r][i].chunk)
        /\ SelectSeq(out[r], IsModelFrame)
              = FramesOfEvents(SelectSeq(events[r], IsForwardedChunkEvent))

\* C1 witness: two "tool_calls" chunks were emitted and another chunk was written
C1_Witness ==
    \E r \in Runs :
        /\ \E i, j \in 1 .. Len(events[r]) :
              /\ i < j
              /\ IsChunkEvent(events[r][i]) /\ FirstFinishIsToolCalls(events[r][i].chunk)
              /\ IsChunkEvent(events[r][j]) /\ FirstFinishIsToolCalls(events[r][j].chunk)
        /\ \E k \in 1 .. Len(out[r]) : IsModelFrame(out[r][k])

\* an event that fired while the stream was open and that is not a suppressed chunk
IsLiveEvent(e) ==
    e.open /\ ~(e.type = "chunk" /\ FirstFinishIsToolCalls(e.chunk))

\* C2: in every state the frames on the outbound stream are the frames of the
\* source events (chunk, update, reference) fired while the stream was open,
\* one frame per non-suppressed event, in the order the events fired.
C2_FramesInEventOrder ==
    \A r \in Runs : out[r] = FramesOfEvents(SelectSeq(events[r], IsLiveEvent))

\* C2 witness: frames of the three kinds are interleaved on the stream: a model
\* chunk, then updates and a reference, then a model chunk again
C2_Witness ==
    \E r \in Runs : \E i, j, k, l \in 1 .. Len(out[r]) :
        /\ i < j /\ j < k /\ k < l
        /\ IsModelFrame(out[r][i]) /\ IsUpdateFrame(out[r][j])
        /\ IsReferenceFrame(out[r][k]) /\ IsModelFrame(out[r][l])

\* C3: once the stream has been cancelled nothing is written to it any more
\* (and it stays cancelled), whatever events fire afterwards.
C3_NoFrameAfterCancel ==
    [][\A r \in Runs :
          stream[r] = "cancelled" => (out'[r] = out[r] /\ stream'[r] = "cancelled")]_vars

\* C3 witness: an 'update' or 'reference' event of a call that was in flight
\* at the cancel fired after the cancel
C3_Witness ==
    \E r \in Runs :
        /\ stream[r] = "cancelled"
        /\ \E i \in 1 .. Len(events[r]) : ~events[r][i].open

\* C4: a cancel of the stream aborts the run in whichever state it is, and once
\* the run is aborted no upstream HTTP call and no completion-API round trip
\* is issued.
C4_CancelAbortsRun ==
    [][\A r \in Runs :
          /\ stream'[r] = "cancelled" => aborted'[r]
          /\ aborted[r] => (http'[r] = http[r] /\ turn'[r] = turn[r])]_vars

\* C4 witness: the run was cancelled during a tool call of a turn that had
\* requested a further tool call, and ended without issuing it
C4_Witness ==
    \E r \in Runs :
        /\ aborted[r] /\ pc[r] = "ended"
        /\ http[r] # <<>>
        /\ cur[r] < Len(pending[r])

\* C5: in a run that is not cancelled, every call the upstream API answered
\* with a non-2xx status resolves to the Failure value carrying the response's
\* status, status text and body, and the run appends that value as the tool result.
C5_NonOkResolvesToFailure ==
    \A r \in Runs : \A i \in 1 .. Len(results[r]) :
        LET c == results[r][i]
        IN  (c.status # 0 /\ ~(c.status >= 200 /\ c.status <= 299) /\ ~c.cancelled)
                => /\ c.settled = "resolved"
                   /\ c.value.ok = FALSE
                   /\ c.value.status = c.status
                   /\ c.value.statusText = StatusText(c.status)
                   /\ c.body.wellFormed /\ c.value.body = c.body.json
                   /\ \E m \in 1 .. Len(messages[r]) :
                         messages[r][m].kind = "result" /\ messages[r][m].content = c.value

\* C6: in a run that is not cancelled, a listDatabases or getDatabase call that
\* got a 2xx response whose JSON body does not have the expected entity shape
\* resolves to the Success value of that body.
C6_ShapeMismatchStillSucceeds ==
    \A r \in Runs : \A i \in 1 .. Len(results[r]) :
        LET c == results[r][i]
        IN  (/\ c.name \in {"listDatabases", "getDatabase"}
             /\ c.status >= 200 /\ c.status <= 299
             /\ c.body.wellFormed
             /\ ~c.cancelled
             /\ \/ c.name = "listDatabases" /\ ~DbListMatches(c.body.json)
                \/ c.name = "getDatabase" /\ ~DbOneMatches(c.body.json))
                => /\ c.settled = "resolved"
                   /\ c.value.ok
                   /\ c.value.data = c.body.json

\* C7: the request PscaleClient.fetch issues carries the fixed credential as
\* its Authorization header together with every other header the caller supplied.
C7_CredentialKept ==
    callRequest # NoRequest =>
        LET sent == callRequest.options["headers"]
            given == IF "headers" \in DOMAIN callInit THEN callInit["headers"]
                     ELSE EmptyObject
        IN  /\ "Authorization" \in DOMAIN sent
            /\ sent["Authorization"] = pscaleAuth
            /\ \A k \in DOMAIN given \ {"Authorization"} :
                  k \in DOMAIN sent /\ sent[k] = given[k]

\* a listDatabases or getDatabase call that returned a Success value
IsReferencedCall(c) ==
    c.name \in {"listDatabases", "getDatabase"} /\ c.settled = "resolved" /\ c.value.ok

\* the records of the response body of a call
SourceRecords(c) == c.body.json.items

\* C8 as stated: a successful listDatabases call over N records puts one
\* reference frame on the stream, with N references in source order, each of
\* type "planetscale.database" with the id of its record and data equal to the record.
C8_ReferenceDataIsSourceRecord ==
    \A r \in Runs :
        LET calls == SelectSeq(results[r], IsReferencedCall)
            frames == SelectSeq(out[r], IsReferenceFrame)
        IN  /\ Len(frames) = Len(calls)
            /\ \A k \in 1 .. Len(calls) :
                  calls[k].name = "listDatabases" =>
                      LET src == SourceRecords(calls[k])
                          refs == frames[k].refs
                      IN  /\ Len(refs) = Len(src)
                          /\ \A j \in 1 .. Len(src) :
                                /\ refs[j].type = "planetscale.database"
                                /\ refs[j].id = src[j].id
                                /\ refs[j].data = src[j]

\* C8 amended: as C8, but the data of a reference is the id and the name of
\* its source record; the other fields of the record are not carried.
C8_ReferencePerRecord ==
    \A r \in Runs :
        LET calls == SelectSeq(results[r], IsReferencedCall)
            frames == SelectSeq(out[r], IsReferenceFrame)
        IN  /\ Len(frames) = Len(calls)
            /\ \A k \in 1 .. Len(calls) :
                  calls[k].name = "listDatabases" =>
                      LET src == SourceRecords(calls[k])
                          refs == frames[k].refs
                      IN  /\ Len(refs) = Len(src)
                          /\ \A j \in 1 .. Len(src) :
                                /\ refs[j].type = "planetscale.database"
                                /\ refs[j].id = src[j].id
                                /\ refs[j].data = [id |-> src[j].id, name |-> src[j].name]

\* C8 witness: listDatabases succeeded over two different records, one of
\* them with a field besides id and name
C8_Witness ==
    \E r \in Runs : \E i \in 1 .. Len(results[r]) :
        /\ results[r][i].name = "listDatabases"
        /\ IsReferencedCall(results[r][i])
        /\ SourceRecords(results[r][i]) = <<RecExtra, RecPlain>>

\* the run of the example: the model requested listDatabases once, the call
\* succeeded, the model then answered with content and the run ended
ListDatabasesOnceRun(r) ==
    /\ pc[r] = "ended" /\ runError[r] = ""
    /\ turn[r] = 2
    /\ Len(messages[r]) = 1 /\ Len(results[r]) = 1
    /\ results[r][1].name = "listDatabases" /\ IsReferencedCall(results[r][1])
    /\ \E i \in 1 .. Len(events[r]) :
          /\ events[r][i].type = "chunk" /\ events[r][i].turn = 2
          /\ events[r][i].chunk.choices # <<>>
          /\ events[r][i].chunk.choices[1].delta.content.kind = "model"

IsFirstTurnFrame(f) == IsModelFrame(f) /\ f.chunk.id = 1
IsLaterFrame(f) == ~IsFirstTurnFrame(f)
UpdateKind(f) == f.chunk.choices[1].delta.content.kind

\* C9 as stated: after the chunks of the model's tool request, the frames of
\* the example run are the update narrating the request, the reference frame,
\* the update "OK", the frames of the answer, and the stream is closed.
C9_ReferenceBeforeOk ==
    \A r \in Runs : ListDatabasesOnceRun(r) =>
        LET rest == SelectSeq(out[r], IsLaterFrame)
        IN  /\ Len(rest) >= 4
            /\ IsUpdateFrame(rest[1]) /\ UpdateKind(rest[1]) = "request"
            /\ IsReferenceFrame(rest[2])
            /\ IsUpdateFrame(rest[3]) /\ UpdateKind(rest[3]) = "ok"
            /\ \A i \in 4 .. Len(rest) : IsModelFrame(rest[i]) /\ rest[i].chunk.id = 2
            /\ stream[r] = "closed"

\* C9 amended: the frames of the example run are the chunks of the model's
\* tool request (all but the one with finish_reason "tool_calls"), the update
\* narrating the request "GET /databases...", the update "OK", the reference
\* frame, the frames of the answer, and the stream is closed.
C9_OkBeforeReference ==
    \A r \in Runs : ListDatabasesOnceRun(r) =>
        LET rest == SelectSeq(out[r], IsLaterFrame)
        IN  /\ out[r] = SelectSeq(out[r], IsFirstTurnFrame) \o rest
            /\ Len(rest) >= 4
            /\ IsUpdateFrame(rest[1]) /\ UpdateKind(rest[1]) = "request"
            /\ rest[1].chunk.choices[1].delta.content.method = "GET"
            /\ rest[1].chunk.choices[1].delta.content.path = <<"databases">>
            /\ IsUpdateFrame(rest[2]) /\ UpdateKind(rest[2]) = "ok"
            /\ IsReferenceFrame(rest[3])
            /\ \A i \in 4 .. Len(rest) : IsModelFrame(rest[i]) /\ rest[i].chunk.id = 2
            /\ stream[r] = "closed"

\* C9 witness: the example run with two databases in the upstream's answer
C9_Witness ==
    \E r \in Runs :
        /\ ListDatabasesOnceRun(r)
        /\ Len(SourceRecords(results[r][1])) = 2

IsRequestUpdate(f) == IsUpdateFrame(f) /\ UpdateKind(f) = "request"
IsTerminalUpdate(f) == IsUpdateFrame(f) /\ UpdateKind(f) \in {"ok", "error"}

\* C10: before any frame of a model turn, the stream holds the update
\* narrating the request and the update narrating the outcome of every
\* upstream call issued in the turns before it.
C10_UpdatesBeforeNextTurn ==
    \A r \in Runs : \A j \in 1 .. Len(out[r]) :
        IsModelFrame(out[r][j]) =>
            LET issued == Cardinality({h \in 1 .. Len(http[r]) :
                                          http[r][h].turn < out[r][j].chunk.id})
            IN  /\ Cardinality({i \in 1 .. j - 1 : IsRequestUpdate(out[r][i])}) = issued
                /\ Cardinality({i \in 1 .. j - 1 : IsTerminalUpdate(out[r][i])}) = issued

\* C10 witness: a content frame of the second model turn is on the stream
\* after a tool-call turn that issued an upstream call
C10_Witness ==
    \E r \in Runs : \E j \in 1 .. Len(out[r]) :
        /\ IsModelFrame(out[r][j]) /\ out[r][j].chunk.id = 2
        /\ out[r][j].chunk.choices # <<>>
        /\ out[r][j].chunk.choices[1].delta.content.kind = "model"
        /\ \E h \in 1 .. Len(http[r]) : http[r][h].turn = 1

\* a chunk event whose first choice carries a tool call of the model
IsToolRequestEvent(e) ==
    e.type = "chunk" /\ e.chunk.choices # <<>> /\ e.chunk.choices[1].delta.tool # ""

RequestedName(e) == e.chunk.choices[1].delta.tool
RequestedArgs(e) == e.chunk.choices[1].delta.args

\* the argument payload of a requested tool call is not valid JSON
IsMalformed(e) == RequestedArgs(e) = ArgsBad

\* the tool calls requested in the turns before turn t, in the order requested
RequestedBefore(es, t) ==
    LET req == SelectSeq(es, IsToolRequestEvent)
    IN  [i \in 1 .. Cardinality({j \in 1 .. Len(req) : req[j].turn < t}) |-> req[i]]

\* with the run awaiting the model in turn t, every tool call of the earlier
\* turns has its tool message, in the order requested; the calls in skipped
\* got a failure message and neither a handler invocation nor an upstream call
MalformedCallsSkipped(es, t, msgs, res, reqs, skipped(_)) ==
    LET earlier == RequestedBefore(es, t)
        invoked == Cardinality({i \in 1 .. Len(earlier) : ~skipped(earlier[i])})
    IN  /\ Len(msgs) = Len(earlier)
        /\ \A i \in 1 .. Len(earlier) :
              /\ msgs[i].name = RequestedName(earlier[i])
              /\ skipped(earlier[i]) <=> msgs[i].kind = "parse_error"
        /\ Len(res) = invoked
        /\ Len(reqs) = invoked

ParseErrors(msgs) == Cardinality({i \in 1 .. Len(msgs) : msgs[i].kind = "parse_error"})

\* a step that skipped a call in a run that is not cancelled leaves the run going
RunGoesOn(r) ==
    (ParseErrors(messages'[r]) > ParseErrors(messages[r]) /\ ~aborted[r])
        => (pc'[r] \in {"awaiting", "tool"} /\ runError'[r] = "")

\* C11 as stated: when the run is back to awaiting the model, every tool call
\* of the earlier turns whose argument payload is not valid JSON has a failure
\* message, and its handler was not invoked and no upstream call issued for it.
C11_MalformedArgsSkipped ==
    \A r \in Runs :
        pc[r] = "awaiting" =>
            MalformedCallsSkipped(events[r], turn[r], messages[r], results[r], http[r],
                                  IsMalformed)

\* a malformed payload for a tool declared with parse: JSON.parse
IsMalformedParsed(e) == IsMalformed(e) /\ RequestedName(e) # "listDatabases"

\* C11 amended: as C11 for the tools declared with parse: JSON.parse (all but
\* listDatabases); listDatabases declares no parse, so its handler is invoked
\* and its upstream call issued whatever the payload. The run ends in neither case.
C11_MalformedArgsSkippedWhereParsed ==
    [][\A r \in Runs :
          /\ RunGoesOn(r)
          /\ pc'[r] = "awaiting" =>
                MalformedCallsSkipped(events'[r], turn'[r], messages'[r], results'[r],
                                      http'[r], IsMalformedParsed)]_vars

\* C11 witness: the run is awaiting the model again after a turn whose only
\* tool call had a malformed payload
C11_Witness ==
    \E r \in Runs :
        /\ pc[r] = "awaiting" /\ turn[r] = 2
        /\ Len(messages[r]) = 1 /\ messages[r][1].kind = "parse_error"
        /\ http[r] = <<>>

\* C12: the step in which the runner emits 'end' closes the stream, if it is
\* still readable, without writing a frame, and nothing is written to a
\* closed stream: it stays closed and holds the same frames.
C12_EndClosesWithoutFrame ==
    [][\A r \in Runs :
          /\ (pc[r] # "ended" /\ pc'[r] = "ended")
                => /\ out'[r] = out[r]
                   /\ stream[r] = "readable" => stream'[r] = "closed"
          /\ stream[r] = "closed" => (out'[r] = out[r] /\ stream'[r] = "closed")]_vars

\* C12 witness: a run that wrote frames has ended normally and its stream is closed
C12_Witness ==
    \E r \in Runs :
        /\ pc[r] = "ended" /\ runError[r] = ""
        /\ stream[r] = "closed"
        /\ out[r] # <<>>

\* C13: as long as the model has requested no tool call, the stream holds
\* only frames of model chunks: those of the chunks emitted whose first choice
\* does not report "tool_calls", in the order emitted, and no update or
\* reference frame.
C13_NoToolRunOnlyModelFrames ==
    \A r \in Runs :
        ncalls[r] = 0 =>
            /\ \A i \in 1 .. Len(out[r]) :
                  /\ IsModelFrame(out[r][i])
                  /\ ~IsUpdateFrame(out[r][i]) /\ ~IsReferenceFrame(out[r][i])
                  /\ ~FirstFinishIsToolCalls(out[r][i].chunk)
            /\ \A i, j \in 1 .. Len(out[r]) : i < j => out[r][i].chunk.n < out[r][j].chunk.n
            /\ Len(out[r]) = Cardinality({i \in 1 .. Len(events[r]) :
                                            IsForwardedChunkEvent(events[r][i])})

\* C13 witness: a run without tool calls ended after two forwarded chunks and
\* a suppressed one
C13_Witness ==
    \E r \in Runs :
        /\ pc[r] = "ended" /\ runError[r] = "" /\ ncalls[r] = 0
        /\ Len(out[r]) = 2
        /\ Len(events[r]) = 3

\* C14: with requests running concurrently, a step in which one run fires
\* 'chunk', 'update' or 'reference' events writes nothing to the stream of
\* another run and leaves that stream as it is, under every interleaving.
C14_RunsIsolated ==
    [][\A r, q \in Runs :
          (r # q /\ events'[r] # events[r])
             => /\ out'[q] = out[q]
                /\ stream'[q] = stream[q]
                /\ events'[q] = events[q]]_vars

\* C14 witness: two requests have upstream calls in flight at the same time,
\* each with its own update frame on its own stream
C14_Witness ==
    /\ pc[1] = "tool" /\ pc[2] = "body"
    /\ \E i \in 1 .. Len(out[1]) : IsUpdateFrame(out[1][i])
    /\ \E i \in 1 .. Len(out[2]) : IsUpdateFrame(out[2][i])
    /\ http[1] # http[2]

\* C15: the step in which an upstream call in flight settles without a
\* response (a transport failure) rejects the tool function with the fetch
\* error and no value, fires no event (no "OK" or "Error" update and no
\* reference after the update narrating the request), appends no tool result,
\* and ends the run with that error.
C15_TransportFailureRejects ==
    [][\A r \in Runs :
          (/\ pc[r] = "tool"
           /\ Len(results'[r]) = Len(results[r]) + 1
           /\ results'[r][Len(results'[r])].status = 0)
             => LET c == results'[r][Len(results'[r])]
                    e == events[r][Len(events[r])]
                IN  /\ c.settled = "rejected"
                    /\ c.error = "FetchError"
                    /\ c.value = NoResult
                    /\ e.type = "update" /\ e.update.kind = "request"
                    /\ events'[r] = events[r]
                    /\ out'[r] = out[r]
                    /\ messages'[r] = messages[r]
                    /\ pc'[r] = "ended"
                    /\ runError'[r] = "FetchError"]_vars

\* C15 witness: the second upstream call of a run that is not cancelled
\* failed at the transport level; the last frame narrates its request
C15_Witness ==
    \E r \in Runs :
        /\ pc[r] = "ended" /\ runError[r] = "FetchError" /\ ~aborted[r]
        /\ Len(results[r]) = 2
        /\ results[r][2].status = 0 /\ results[r][2].settled = "rejected"
        /\ IsRequestUpdate(out[r][Len(out[r])])

\* the path the tool function of a requested call passes to the client
RequestedPath(e) == ToolPath([name |-> RequestedName(e), args |-> RequestedArgs(e)])

\* a requested call whose tool function is invoked
IsInvokedCall(e) == ~IsMalformedParsed(e)

\* the update frames of a stream, in order
UpdateFrames(frames) == SelectSeq(frames, IsUpdateFrame)

\* C16: the upstream calls are issued in the order the model requested the
\* tool calls, each only when every call before it has settled; the tool
\* messages are in the order requested; and on the stream the update frames
\* come in pairs, the request update of a call and then its terminal update,
\* the k-th request update narrating the k-th upstream call.
C16_ToolCallsSequential ==
    \A r \in Runs :
        LET req == SelectSeq(events[r], IsToolRequestEvent)
            invoked == SelectSeq(req, IsInvokedCall)
            ups == UpdateFrames(out[r])
        IN  /\ Len(http[r]) <= Len(invoked)
            /\ \A i \in 1 .. Len(http[r]) :
                  /\ http[r][i].request.path = RequestedPath(invoked[i])
                  /\ http[r][i].turn = invoked[i].turn
            /\ Len(messages[r]) <= Len(req)
            /\ \A i \in 1 .. Len(messages[r]) : messages[r][i].name = RequestedName(req[i])
            /\ Len(http[r]) <= Len(results[r]) + 1
            /\ pc[r] \in {"tool", "body"} <=> Len(http[r]) = Len(results[r]) + 1
            /\ \A k \in 1 .. Len(ups) :
                  IF k % 2 = 1
                  THEN /\ IsRequestUpdate(ups[k])
                       /\ (k + 1) \div 2 <= Len(http[r])
                       /\ ups[k].chunk.choices[1].delta.content.path
                             = http[r][(k + 1) \div 2].request.path
                  ELSE IsTerminalUpdate(ups[k])

\* C16 witness: the model requested two different tools in one turn, and
\* both upstream calls have been answered
C16_Witness ==
    \E r \in Runs :
        /\ Len(http[r]) = 2 /\ http[r][1].turn = http[r][2].turn
        /\ http[r][1].request.path # http[r][2].request.path
        /\ Len(messages[r]) = 2 /\ messages[r][1].name # messages[r][2].name
        /\ Len(UpdateFrames(out[r])) = 4

IsUpdateEvent(e) == e.type = "update"

\* the 'update' events run r fires in the step
NewUpdates(r) ==
    SelectSeq(SubSeq(events'[r], Len(events[r]) + 1, Len(events'[r])), IsUpdateEvent)

\* the step issues an upstream HTTP request for run r
IssuesRequest(r) == Len(http'[r]) = Len(http[r]) + 1

\* the step is the arrival of the response to run r's HTTP call in flight
ResponseArrives(r) ==
    /\ pc[r] = "tool"
    /\ \/ pc'[r] = "body"
       \/ /\ Len(results'[r]) > Len(results[r])
          /\ results'[r][Len(results'[r])].status # 0

\* the status of the response that arrives
ArrivedStatus(r) ==
    IF pc'[r] = "body" THEN resp'[r] ELSE results'[r][Len(results'[r])].status

\* C17: a step that issues an upstream HTTP request fires exactly one
\* 'update', narrating the request's method and path; the step in which the
\* response arrives fires exactly one 'update', "OK" if and only if the
\* status is 2xx and the error status otherwise; and no other 'update' is
\* fired, except the request update of a fetch called after the run was aborted.
C17_OneRequestAndOneTerminalUpdate ==
    [][\A r \in Runs :
          LET new == NewUpdates(r)
          IN  /\ Len(new) <= 1
              /\ IssuesRequest(r) =>
                    /\ Len(new) = 1
                    /\ LET q == http'[r][Len(http'[r])].request
                       IN  new[1].update = RequestText(q.options["method"], q.path)
              /\ ResponseArrives(r) =>
                    /\ Len(new) = 1
                    /\ new[1].update = IF StatusOk(ArrivedStatus(r)) THEN OkText
                                       ELSE ErrorText(ArrivedStatus(r))
                    /\ new[1].update.kind = "ok" <=> StatusOk(ArrivedStatus(r))
                    /\ new[1].update.kind = "error" <=> ~StatusOk(ArrivedStatus(r))
              /\ Len(new) = 1 =>
                    \/ IssuesRequest(r)
                    \/ ResponseArrives(r)
                    \/ aborted[r] /\ new[1].update.kind = "request"]_vars

\* C17 witness: one upstream call of the run was answered with an error
\* status and another with a 2xx status; each has its two updates on the stream
C17_Witness ==
    \E r \in Runs :
        /\ Len(http[r]) = 2 /\ Len(results[r]) = 2
        /\ ~StatusOk(results[r][1].status) /\ results[r][1].status # 0
        /\ StatusOk(results[r][2].status)
        /\ LET ups == UpdateFrames(out[r])
           IN  /\ Len(ups) = 4
               /\ UpdateKind(ups[2]) = "error"
               /\ UpdateKind(ups[4]) = "ok"

\* C18: no method of the stream's controller is called while the stream is
\* not readable: no close and no enqueue after the stream was closed or
\* cancelled (and so close is called at most once).
C18_ControllerNotUsedAfterEnd ==
    \A r \in Runs : invalid[r] = {}

\* C19: every run that has started eventually leaves its stream not readable
\* (closed, or cancelled by the caller), whichever way it ends.
C19_StreamEventuallyEnds ==
    \A r \in Runs : (pc[r] # "idle") ~> (stream[r] # "readable")

\* C19 witness: a run ended by a failure of the completion API after it had
\* written a frame, and its stream is closed
C19_Witness ==
    \E r \in Runs :
        /\ pc[r] = "ended" /\ runError[r] = "APIError"
        /\ out[r] # <<>>
        /\ stream[r] = "closed"

\* C20: a request fires no event before handleRequest has run, and from then
\* on its four listeners are attached; so the stream holds the frame of every
\* event fired while it was open but the suppressed chunks, and a run whose
\* 'end' has fired has no readable stream.
C20_ListenersAttachedFirst ==
    \A r \in Runs :
        /\ pc[r] = "idle" => (events[r] = <<>> /\ out[r] = <<>>)
        /\ pc[r] # "idle" => attached[r] = Listeners
        /\ Len(out[r]) = Len(SelectSeq(events[r], IsLiveEvent))
        /\ \A i \in 1 .. Len(events[r]) :
              IsLiveEvent(events[r][i]) =>
                  \E j \in 1 .. Len(out[r]) : out[r][j] = FrameOfEvent(events[r][i])
        /\ pc[r] = "ended" => stream[r] # "readable"

\* C20 witness: a request went through handleRequest, its run fired events
\* and ended, its stream holds their frames and is closed, while another
\* request has not been handled yet
C20_Witness ==
    \E r, q \in Runs :
        /\ pc[q] = "idle"
        /\ pc[r] = "ended" /\ runError[r] = ""
        /\ stream[r] = "closed"
        /\ Len(out[r]) >= 3
        /\ \E i \in 1 .. Len(out[r]) : IsReferenceFrame(out[r][i])

====
